---- MODULE Spec2Model ----
(***************************************************************************)
(* A model of check_referrals.py: the CSV loader, the page classifier and  *)
(* the run (main / run_validation) that drives a browser session over the  *)
(* loaded records and writes the report.                                   *)
(*                                                                         *)
(* Text is a sequence of words (the words are separated by single spaces   *)
(* in the real string).  Among the words used here, none contains one of   *)
(* the searched words (credit, $50, $20, invalid, referral, code) except   *)
(* that word itself, so Python's substring test `needle in text` is        *)
(* exactly "the needle's words occur contiguously in the text".            *)
(***************************************************************************)
EXTENDS Integers, Sequences, FiniteSets, TLC

VARIABLES
    \* ---- the run (main, run_validation) ----
    pc,             \* position of main: start, load, check, report, save, finally, exit
    driver,         \* "none" | "live" | "quit"
    quits,          \* number of driver.quit() calls made
    csv_file,       \* the input file on disk
    referral_data,  \* the loader's result inside run_validation
    idx,            \* 1-based index of the next record of the for loop
    results,        \* the four partitions
    outcomes,       \* history: per processed record, what the browser did and the verdict
    output_file,    \* the report file on disk
    console,        \* the notable console messages, in order
    summary,        \* the summary print_results printed
    ending,         \* how the run reached its end
    \* ---- the classifier checked on its own ----
    cPage, cResult, cDone,
    \* ---- the loader checked on its own ----
    lFile, lResult, lDone

runVars == <<pc, driver, quits, csv_file, referral_data, idx, results, outcomes,
             output_file, console, summary, ending>>
classifyVars == <<cPage, cResult, cDone>>
loadVars == <<lFile, lResult, lDone>>
vars == <<runVars, classifyVars, loadVars>>

(***************************************************************************)
(* Bounds of the model.                                                    *)
(***************************************************************************)
MaxTextLen == 3      \* words in a generated page text
MaxTitleLen == 2     \* words in a generated page title
MaxElems == 2        \* candidate elements on a generated page
MaxRows == 2         \* data rows of a generated CSV file (loader on its own)
MaxRunRows == 3      \* data rows of a CSV file of a full run

\* All sequences over S of length at most n.
BoundedSeq(S, n) == UNION {[1..k -> S] : k \in 0..n}

(***************************************************************************)
(* Strings: lower-casing and substring search.                             *)
(***************************************************************************)
\* str.lower() on one word.
LowerWord(w) ==
    CASE w = "Invalid" -> "invalid"
      [] w = "This" -> "this"
      [] w = "You" -> "you"
      [] w = "Credit" -> "credit"
      [] w = "Referral" -> "referral"
      [] w = "Code" -> "code"
      [] w = "Cursor" -> "cursor"
      [] OTHER -> w

\* str.lower() on a text.
Lower(text) == [k \in 1..Len(text) |-> LowerWord(text[k])]

\* `needle in text`.
In(needle, text) ==
    \E s \in 0..(Len(text) - Len(needle)) :
        \A k \in 1..Len(needle) : text[s + k] = needle[k]

DOLLAR_AMOUNT == 50

\* f"${n}"
DollarToken(n) == CASE n = 50 -> "$50" [] n = 20 -> "$20" [] OTHER -> "$?"

(***************************************************************************)
(* What the browser answers for one record.                                *)
(*   nav          : "ok", or the exception driver.get raised                *)
(*   bodyRaises   : find_element(body) / body.text raises                   *)
(*   body         : body.text                                               *)
(*   sourceRaises : driver.page_source raises                               *)
(*   source       : driver.page_source                                      *)
(*   titleRaises  : driver.title raises                                     *)
(*   title        : driver.title                                            *)
(*   elemsRaise   : find_elements raises                                    *)
(*   elems        : the candidate elements in document order, each with     *)
(*                  its text, or raising when its text is read              *)
(***************************************************************************)
NavErrors == {"TimeoutException", "WebDriverException", "Exception"}

Elem(t) == [raises |-> FALSE, text |-> t]
StaleElem == [raises |-> TRUE, text |-> <<>>]

Page(b, t, es) ==
    [nav |-> "ok", bodyRaises |-> FALSE, body |-> b, sourceRaises |-> FALSE,
     source |-> <<>>, titleRaises |-> FALSE, title |-> t, elemsRaise |-> FALSE,
     elems |-> es]

BlankPage == Page(<<>>, <<>>, <<>>)

\* A get_page_text without the page_source fallback.
get_page_text_NoFallback(p) ==
    IF ~p.bodyRaises
    THEN [raises |-> FALSE, text |-> Lower(p.body), calls |-> <<"body">>]
    ELSE [raises |-> TRUE, text |-> <<>>, calls |-> <<"body">>]

\* A get_page_text that does not lower-case.
get_page_text_NoLower(p) ==
    IF ~p.bodyRaises
    THEN [raises |-> FALSE, text |-> p.body, calls |-> <<"body">>]
    ELSE IF ~p.sourceRaises
    THEN [raises |-> FALSE, text |-> p.source, calls |-> <<"body", "page_source">>]
    ELSE [raises |-> TRUE, text |-> <<>>, calls |-> <<"body", "page_source">>]

\* get_page_text: [raises, text, calls]
get_page_text(p) ==
    IF ~p.bodyRaises
    THEN [raises |-> FALSE, text |-> Lower(p.body), calls |-> <<"body">>]
    ELSE IF ~p.sourceRaises
    THEN [raises |-> FALSE, text |-> Lower(p.source),
          calls |-> <<"body", "page_source">>]
    ELSE [raises |-> TRUE, text |-> <<>>, calls |-> <<"body", "page_source">>]

\* An is_valid_code that takes the fallback's "$20" too.
is_valid_code_AnyAmount(text) ==
    In(<<"credit">>, text)
        /\ (In(<<DollarToken(DOLLAR_AMOUNT)>>, text) \/ In(<<"$20">>, text))

\* is_valid_code
is_valid_code(text) ==
    LET has_credit == In(<<"credit">>, text)
        has_amount == In(<<DollarToken(DOLLAR_AMOUNT)>>, text)
    IN  has_credit /\ has_amount

invalid_phrases ==
    { <<"invalid", "referral", "code">>,
      <<"this", "referral", "code", "is", "invalid">> }

\* is_invalid_code
is_invalid_code(text) ==
    (\E phrase \in invalid_phrases : In(phrase, text))
        \/ (In(<<"invalid">>, text) /\ In(<<"referral">>, text) /\ In(<<"code">>, text))

\* The title check of check_referral_status (a raising driver.title is passed over).
TitleCheck(p) ==
    IF p.titleRaises
    THEN FALSE
    ELSE LET title == Lower(p.title)
         IN  In(<<"invalid">>, title) /\ In(<<"referral">>, title)

\* The for loop over the headings, from element k on: [status, calls].
RECURSIVE ScanHeadings(_, _)
ScanHeadings(elems, k) ==
    IF k > Len(elems)
    THEN [status |-> "unknown", calls |-> <<>>]
    ELSE IF elems[k].raises
    THEN [status |-> "unknown", calls |-> <<"heading.text">>]
    ELSE LET text == Lower(elems[k].text) IN
         IF In(<<"invalid", "referral", "code">>, text)
         THEN [status |-> "invalid", calls |-> <<"heading.text">>]
         ELSE IF In(<<"credit">>, text) /\ (In(<<"$50">>, text) \/ In(<<"$20">>, text))
         THEN [status |-> "valid", calls |-> <<"heading.text">>]
         ELSE LET rest == ScanHeadings(elems, k + 1)
              IN  [status |-> rest.status, calls |-> <<"heading.text">> \o rest.calls]

\* The element check of check_referral_status.
ElementCheck(p) ==
    IF p.elemsRaise
    THEN [status |-> "unknown", calls |-> <<"find_elements">>]
    ELSE LET scan == ScanHeadings(p.elems, 1)
         IN  [status |-> scan.status, calls |-> <<"find_elements">> \o scan.calls]

\* check_referral_status after driver.get returned (lines 80-114, and the
\* handlers of lines 116-124 for what get_page_text lets through):
\* the status returned and the driver calls made, in order.
ClassifyLoaded(p) ==
    LET t == get_page_text(p) IN
    IF t.raises
    THEN [status |-> "error", calls |-> <<"get">> \o t.calls]
    ELSE IF is_valid_code(t.text)
    THEN [status |-> "valid", calls |-> <<"get">> \o t.calls]
    ELSE IF is_invalid_code(t.text)
    THEN [status |-> "invalid", calls |-> <<"get">> \o t.calls]
    ELSE IF TitleCheck(p)
    THEN [status |-> "invalid", calls |-> <<"get">> \o t.calls \o <<"title">>]
    ELSE LET e == ElementCheck(p)
         IN  [status |-> e.status,
              calls |-> <<"get">> \o t.calls \o <<"title">> \o e.calls]

\* A check_referral_status whose driver.get failure is swallowed.
check_referral_status_NavSwallowed(p) == ClassifyLoaded(p)

\* check_referral_status with the webdriver answering as page p does.
check_referral_status(p) ==
    IF p.nav # "ok"
    THEN [status |-> "error", calls |-> <<"get">>]
    ELSE ClassifyLoaded(p)

(***************************************************************************)
(* The pages the classifier is checked on.                                 *)
(***************************************************************************)
Words == {"credit", "$50", "$20", "invalid", "referral", "code"}

\* Rendered texts of the scenarios of the program's description, and a page
\* that carries both the invalid phrase and the credit offer.
ScenarioTexts ==
    { <<"You", "both", "get", "$50", "in", "credit">>,
      <<"This", "referral", "code", "is", "invalid">>,
      <<"Invalid", "Referral", "Code">>,
      <<"Invalid", "referral", "code", "get", "$50", "in", "credit">> }

Texts == BoundedSeq(Words, MaxTextLen) \cup ScenarioTexts

\* Raw markup, read only when the body cannot be located.
Sources ==
    { <<"html", "Invalid", "referral", "code">>,
      <<"html", "Credit", "$50">>,
      <<"html">> }

TitleWords == {"Invalid", "referral"}
Titles == BoundedSeq(TitleWords, MaxTitleLen)

Headings ==
    { Elem(<<"Invalid", "referral", "code">>),
      Elem(<<"credit", "$20">>),
      Elem(<<"$50", "Credit">>),
      Elem(<<"welcome">>),
      StaleElem }
ElemLists == BoundedSeq(Headings, MaxElems)

TextFacets ==
    {[bodyRaises |-> FALSE, body |-> b, sourceRaises |-> FALSE, source |-> <<>>] :
        b \in Texts}
    \cup
    {[bodyRaises |-> TRUE, body |-> <<>>, sourceRaises |-> FALSE, source |-> s] :
        s \in Sources}
    \cup
    {[bodyRaises |-> TRUE, body |-> <<>>, sourceRaises |-> TRUE, source |-> <<>>]}

TitleFacets ==
    {[titleRaises |-> FALSE, title |-> t] : t \in Titles}
    \cup {[titleRaises |-> TRUE, title |-> <<>>]}

ElemFacets ==
    {[elemsRaise |-> FALSE, elems |-> es] : es \in ElemLists}
    \cup {[elemsRaise |-> TRUE, elems |-> <<>>]}

LoadedPage(tf, ti, ef) ==
    [nav |-> "ok", bodyRaises |-> tf.bodyRaises, body |-> tf.body,
     sourceRaises |-> tf.sourceRaises, source |-> tf.source,
     titleRaises |-> ti.titleRaises, title |-> ti.title,
     elemsRaise |-> ef.elemsRaise, elems |-> ef.elems]

FailedPage(e) == [BlankPage EXCEPT !.nav = e]

\* p is one of the pages the classifier is checked on.
IsClassifyPage(p) ==
    \/ \E tf \in TextFacets, ti \in TitleFacets, ef \in ElemFacets :
            p = LoadedPage(tf, ti, ef)
    \/ \E e \in NavErrors : p = FailedPage(e)

NoResult == [status |-> "none", calls |-> <<>>]

(***************************************************************************)
(* The CSV file and the loader.                                            *)
(*                                                                         *)
(* A cell is None (csv.DictReader's fill for a row shorter than the        *)
(* header) or a string: its text, with or without surrounding whitespace.  *)
(* A link's text is a URL: its scheme as characters and its query as       *)
(* key=value pairs; the empty string is the URL with neither.              *)
(***************************************************************************)
None == [none |-> TRUE, pad |-> FALSE, text |-> ""]
Str(pad, text) == [none |-> FALSE, pad |-> pad, text |-> text]

Url(scheme, query) == [scheme |-> scheme, query |-> query]
EmptyUrl == Url(<<>>, <<>>)
NoneLink == [none |-> TRUE, pad |-> FALSE, text |-> EmptyUrl]

\* str.strip()
Strip(cell) == cell.text

\* The first characters of the URL string: the scheme, "://" and the host.
UrlHead(url) ==
    IF url = EmptyUrl THEN <<>> ELSE url.scheme \o <<":", "/", "/", "c">>

\* str.startswith
StartsWith(chars, prefix) ==
    Len(chars) >= Len(prefix) /\ SubSeq(chars, 1, Len(prefix)) = prefix

\* Python truthiness of a cell: None and "" are falsy.
Truthy(cell) == ~cell.none /\ (cell.pad \/ cell.text # EmptyUrl)

KV(k, v) == [key |-> k, value |-> v]

\* urllib.parse.parse_qs(query).get(key): the values of the key, blank ones dropped.
parse_qs_get(query, key) ==
    LET kept == SelectSeq(query, LAMBDA kv : kv.value # "" /\ kv.key = key)
    IN  [k \in 1..Len(kept) |-> kept[k].value]

\* extract_code_from_url: [none, code]
extract_code_from_url(url) ==
    LET values == parse_qs_get(url.query, "code")
    IN  IF values = <<>> THEN [none |-> TRUE, code |-> ""]
        ELSE [none |-> FALSE, code |-> values[1]]

\* The rows of load_referral_data's for loop, from row k on.
\* [failed, data, warnings]: failed is the None return after "Error reading CSV
\* file"; warnings are the URLs of the "Could not extract code" messages.
RECURSIVE LoadRows(_, _, _, _)
LoadRows(file, k, referral, warnings) ==
    IF k > Len(file.rows)
    THEN [failed |-> FALSE, data |-> referral, warnings |-> warnings]
    ELSE
    LET row == file.rows[k] IN
    IF ~Truthy(row.link)
    THEN LoadRows(file, k + 1, referral, warnings)
    ELSE
    LET url == Strip(row.link) IN
    IF url = EmptyUrl \/ ~StartsWith(UrlHead(url), <<"h", "t", "t", "p">>)
    THEN LoadRows(file, k + 1, referral, warnings)
    ELSE
    LET code == extract_code_from_url(url) IN
    IF code.none
    THEN LoadRows(file, k + 1, referral, Append(warnings, url))
    ELSE IF file.hasName /\ row.name.none
    THEN \* None.strip() raises AttributeError, caught at line 150
         [failed |-> TRUE, data |-> <<>>, warnings |-> warnings]
    ELSE
    LET stripped == IF file.hasName THEN Strip(row.name) ELSE "Unknown"
        name == IF stripped = "" THEN "Unknown" ELSE stripped
    IN  LoadRows(file, k + 1,
                 Append(referral, [url |-> url, name |-> name, code |-> code.code]),
                 warnings)

\* load_referral_data
load_referral_data(file) ==
    IF ~file.openable \/ ~file.parsable
    THEN [failed |-> TRUE, data |-> <<>>, warnings |-> <<>>]
    ELSE LoadRows(file, 1, <<>>, <<>>)

(***************************************************************************)
(* The files the loader is checked on.                                     *)
(***************************************************************************)
Http == <<"h", "t", "t", "p">>
Https == <<"h", "t", "t", "p", "s">>
Httpx == <<"h", "t", "t", "p", "x">>
Ftp == <<"f", "t", "p">>

Schemes == {Https, Httpx, Ftp}
Queries ==
    { <<>>,
      <<KV("code", "A")>>,
      <<KV("code", "")>>,
      <<KV("ref", "B"), KV("code", ""), KV("code", "B")>> }

Links ==
    {NoneLink, Str(FALSE, EmptyUrl), Str(TRUE, EmptyUrl)}
    \cup {Str(pad, Url(s, q)) : pad \in BOOLEAN, s \in Schemes, q \in Queries}

Names == {None, Str(TRUE, ""), Str(TRUE, "Bob")}

CsvFile(hasName, rows) ==
    [openable |-> TRUE, parsable |-> TRUE, hasName |-> hasName, rows |-> rows]
MissingFile == [CsvFile(FALSE, <<>>) EXCEPT !.openable = FALSE]
GarbledFile == [CsvFile(FALSE, <<>>) EXCEPT !.parsable = FALSE]

\* f is one of the files the loader is checked on.
IsLoadFile(f) ==
    \/ f \in {MissingFile, GarbledFile}
    \/ \E n \in 0..MaxRows :
        \E rows \in [1..n -> {[link |-> l, name |-> None] : l \in Links}] :
            f = CsvFile(FALSE, rows)
    \/ \E n \in 0..MaxRows :
        \E rows \in [1..n -> {[link |-> l, name |-> m] : l \in Links, m \in Names}] :
            f = CsvFile(TRUE, rows)

(***************************************************************************)
(* Idle values of the parts a specification does not use.                  *)
(***************************************************************************)
NoFile == MissingFile
NoLoad == [failed |-> FALSE, data |-> <<>>, warnings |-> <<>>]
EmptyResults ==
    [valid |-> <<>>, invalid |-> <<>>, error |-> <<>>, unknown |-> <<>>]
NoSummary == [printed |-> FALSE, valid |-> 0, invalid |-> 0, errors |-> 0, unknown |-> 0, total |-> 0]
StaleReport == [written |-> FALSE, total |-> 0, section |-> FALSE, listing |-> <<>>]

RunIdle ==
    /\ pc = "idle" /\ driver = "none" /\ quits = 0
    /\ csv_file = NoFile /\ referral_data = NoLoad /\ idx = 0
    /\ results = EmptyResults /\ outcomes = <<>>
    /\ output_file = StaleReport /\ console = <<>>
    /\ summary = NoSummary /\ ending = "none"

ClassifyIdle == cPage = BlankPage /\ cResult = NoResult /\ cDone = FALSE

LoadIdle == lFile = NoFile /\ lResult = NoLoad /\ lDone = FALSE

(***************************************************************************)
(* The classifier on its own: a page is drawn, check_referral_status runs. *)
(***************************************************************************)
InitClassify ==
    /\ IsClassifyPage(cPage) /\ cResult = NoResult /\ cDone = FALSE
    /\ RunIdle /\ LoadIdle

Classify ==
    /\ ~cDone
    /\ cResult' = check_referral_status(cPage)
    /\ cDone' = TRUE
    /\ UNCHANGED <<cPage, runVars, loadVars>>

NextClassify == Classify

SpecClassify == InitClassify /\ [][NextClassify]_vars

(***************************************************************************)
(* The loader on its own: a file is drawn, load_referral_data runs.        *)
(***************************************************************************)
InitLoad ==
    /\ IsLoadFile(lFile) /\ lResult = NoLoad /\ lDone = FALSE
    /\ RunIdle /\ ClassifyIdle

LoadFile ==
    /\ ~lDone
    /\ lResult' = load_referral_data(lFile)
    /\ lDone' = TRUE
    /\ UNCHANGED <<lFile, runVars, classifyVars>>

NextLoad == LoadFile

SpecLoad == InitLoad /\ [][NextLoad]_vars

(***************************************************************************)
(* The run: main and run_validation.                                       *)
(***************************************************************************)
Statuses == {"valid", "invalid", "error", "unknown"}

\* The files and the browser answers a full run is checked on.
GoodRow(code, name) ==
    [link |-> Str(TRUE, Url(Https, <<KV("code", code)>>)), name |-> name]
RunRows ==
    { GoodRow("A", Str(TRUE, "Bob")),
      GoodRow("B", Str(FALSE, "")),
      [link |-> Str(FALSE, Url(Ftp, <<KV("code", "C")>>)), name |-> Str(FALSE, "Eve")],
      [link |-> Str(FALSE, Url(Https, <<>>)), name |-> Str(FALSE, "Dan")],
      GoodRow("E", None) }

IsRunFile(f) ==
    \/ f \in {MissingFile, GarbledFile}
    \/ \E n \in 0..MaxRunRows : \E rows \in [1..n -> RunRows] : f = CsvFile(TRUE, rows)

RunPages ==
    { FailedPage("TimeoutException"),
      FailedPage("WebDriverException"),
      Page(<<"You", "both", "get", "$50", "in", "credit">>, <<"Cursor">>, <<>>),
      Page(<<"This", "referral", "code", "is", "invalid">>, <<"Cursor">>, <<>>),
      Page(<<"welcome">>, <<"Invalid", "referral">>, <<>>),
      Page(<<"welcome">>, <<"Cursor">>, <<Elem(<<"welcome">>), Elem(<<"credit", "$20">>)>>),
      Page(<<"welcome">>, <<"Cursor">>, <<>>),
      [BlankPage EXCEPT !.bodyRaises = TRUE, !.sourceRaises = TRUE] }

Has(msgs, m) == \E k \in 1..Len(msgs) : msgs[k] = m

\* A main without the `if not driver` test.
main_after_setup_NoCheck(launched) == "load"

\* main, lines 248-250: where main goes once setup_driver has returned.
main_after_setup(launched) == IF launched THEN "load" ELSE "exit"

\* run_validation, line 196: `if not referral_data`.
not_referral_data(loaded) == loaded.failed \/ loaded.data = <<>>

\* An append that files error records under unknown.
AppendResult_ErrorAsUnknown(res, data, status) ==
    LET part == IF status = "error" THEN "unknown" ELSE status
    IN  [res EXCEPT ![part] = Append(@, [url |-> data.url, name |-> data.name,
                                         code |-> data.code, status |-> status])]

\* run_validation, line 222: results[status].append({**data, 'status': status})
AppendResult(res, data, status) ==
    [res EXCEPT ![status] = Append(@, [url |-> data.url, name |-> data.name,
                                       code |-> data.code, status |-> status])]

\* print_results: the summary block.
print_results(valid_codes, invalid_codes, error_codes, unknown_codes, total) ==
    [printed |-> TRUE, valid |-> Len(valid_codes), invalid |-> Len(invalid_codes),
     errors |-> Len(error_codes), unknown |-> Len(unknown_codes), total |-> total]

\* save_results: the file it writes (mode 'w': the old content is gone).
save_results(valid_codes, total) ==
    [written |-> TRUE, total |-> total, section |-> valid_codes # <<>>,
     listing |-> [k \in 1..Len(valid_codes) |->
                    [code |-> valid_codes[k].code, url |-> valid_codes[k].url]]]

Init ==
    /\ pc = "start" /\ driver = "none" /\ quits = 0
    /\ IsRunFile(csv_file)
    /\ referral_data = NoLoad /\ idx = 0
    /\ results = EmptyResults /\ outcomes = <<>>
    /\ output_file = StaleReport /\ console = <<>>
    /\ summary = NoSummary /\ ending = "none"
    /\ ClassifyIdle /\ LoadIdle

\* main, lines 248-250, with setup_driver (lines 23-34).
SetupDriver ==
    /\ pc = "start"
    /\ \E launched \in BOOLEAN :
        /\ driver' = IF launched THEN "live" ELSE "none"
        /\ console' = IF launched THEN console
                      ELSE console \o <<"Error setting up WebDriver">>
        /\ ending' = IF launched THEN ending ELSE "no_driver"
        /\ pc' = main_after_setup(launched)
    /\ UNCHANGED <<quits, csv_file, referral_data, idx, results, outcomes,
                   output_file, summary, classifyVars, loadVars>>

\* run_validation, lines 195-207.
Load ==
    /\ pc = "load"
    /\ LET loaded == load_referral_data(csv_file) IN
        /\ referral_data' = loaded
        /\ console' = console
                \o [k \in 1..Len(loaded.warnings) |-> "Warning: Could not extract code"]
                \o (IF loaded.failed THEN <<"Error reading CSV file">> ELSE <<>>)
        /\ IF not_referral_data(loaded)
           THEN /\ pc' = "finally"
                /\ ending' = IF loaded.failed THEN "load_failed" ELSE "no_records"
                /\ idx' = idx
           ELSE /\ pc' = "check"
                /\ ending' = ending
                /\ idx' = 1
    /\ UNCHANGED <<driver, quits, csv_file, results, outcomes, output_file,
                   summary, classifyVars, loadVars>>

\* run_validation, lines 217-225: one turn of the for loop.
CheckRecord ==
    /\ pc = "check"
    /\ \E page \in RunPages :
        LET data == referral_data.data[idx]
            checked == check_referral_status(page)
        IN  /\ results' = AppendResult(results, data, checked.status)
            /\ outcomes' = Append(outcomes, [nav |-> page.nav,
                                             status |-> checked.status,
                                             calls |-> checked.calls])
    /\ idx' = idx + 1
    /\ pc' = IF idx = Len(referral_data.data) THEN "report" ELSE "check"
    /\ UNCHANGED <<driver, quits, csv_file, referral_data, output_file, console,
                   summary, ending, classifyVars, loadVars>>

\* run_validation, lines 228-234.
Report ==
    /\ pc = "report"
    /\ summary' = print_results(results.valid, results.invalid, results.error,
                                results.unknown, Len(referral_data.data))
    /\ pc' = "save"
    /\ UNCHANGED <<driver, quits, csv_file, referral_data, idx, results, outcomes,
                   output_file, console, ending, classifyVars, loadVars>>

\* run_validation, lines 236-237; open() may raise OSError, caught at line 257.
Save ==
    /\ pc = "save"
    /\ \E writable \in BOOLEAN :
        /\ output_file' = IF writable
                          THEN save_results(results.valid, Len(referral_data.data))
                          ELSE output_file
        /\ console' = console \o <<IF writable THEN "Results saved to"
                                   ELSE "Error in main execution">>
        /\ ending' = IF writable THEN "normal" ELSE "exception"
    /\ pc' = "finally"
    /\ UNCHANGED <<driver, quits, csv_file, referral_data, idx, results, outcomes,
                   summary, classifyVars, loadVars>>

\* KeyboardInterrupt raised anywhere inside run_validation: it passes every
\* `except Exception` and is caught at line 255.
Interrupt ==
    /\ pc \in {"load", "check", "report", "save"}
    /\ console' = console \o <<"Operation cancelled by user">>
    /\ ending' = "interrupt"
    /\ pc' = "finally"
    /\ UNCHANGED <<driver, quits, csv_file, referral_data, idx, results, outcomes,
                   output_file, summary, classifyVars, loadVars>>

\* A main whose driver.quit() is skipped after a KeyboardInterrupt.
Finally_SkipOnInterrupt ==
    /\ pc = "finally"
    /\ quits' = IF ending = "interrupt" THEN quits ELSE quits + 1
    /\ driver' = IF ending = "interrupt" THEN driver ELSE "quit"
    /\ pc' = "exit"
    /\ UNCHANGED <<csv_file, referral_data, idx, results, outcomes, output_file,
                   console, summary, ending, classifyVars, loadVars>>

\* main, lines 259-260: finally: driver.quit()
Finally ==
    /\ pc = "finally"
    /\ quits' = quits + 1
    /\ driver' = "quit"
    /\ pc' = "exit"
    /\ UNCHANGED <<csv_file, referral_data, idx, results, outcomes, output_file,
                   console, summary, ending, classifyVars, loadVars>>

Next ==
    \/ SetupDriver
    \/ Load
    \/ CheckRecord
    \/ Report
    \/ Save
    \/ Interrupt
    \/ Finally

Spec == Init /\ [][Next]_vars

(***************************************************************************)
(* Properties of the run.                                                  *)
(***************************************************************************)
\* The outcome record of the k-th processed record.
OutcomeOf(k) ==
    LET data == referral_data.data[k]
    IN  [url |-> data.url, name |-> data.name, code |-> data.code,
         status |-> outcomes[k].status]

\* C1: once setup_driver has returned a session, driver.quit() is called exactly
\* once however the run ends (normally, on a fatal load failure, on a
\* KeyboardInterrupt inside run_validation, on another exception), never before
\* the end, and never when setup_driver failed.
C1_ReleasedExactlyOnce ==
    /\ quits <= 1
    /\ (pc = "exit" /\ ending # "no_driver") => (quits = 1 /\ driver = "quit")
    /\ ending = "no_driver" => (quits = 0 /\ driver = "none")
    /\ pc # "exit" => quits = 0

C1_Witness ==
    pc = "exit" /\ ending = "interrupt" /\ outcomes # <<>> /\ quits = 1

\* C2: a record whose navigation failed has status error, was returned after
\* driver.get alone (no text, title or element read), sits in the error
\* partition, and the loop goes on: while in the loop the next record is the
\* one after the last processed, and the loop is left only with every record
\* processed.
C2_NavFailureIsError ==
    /\ \A k \in 1..Len(outcomes) :
        outcomes[k].nav # "ok" =>
            /\ outcomes[k].status = "error"
            /\ outcomes[k].calls = <<"get">>
            /\ \E j \in 1..Len(results.error) : results.error[j] = OutcomeOf(k)
    /\ pc = "check" =>
            (idx = Len(outcomes) + 1 /\ idx <= Len(referral_data.data))
    /\ (pc \in {"report", "save"} \/ ending \in {"normal", "exception"}) =>
            Len(outcomes) = Len(referral_data.data)

C2_Witness ==
    /\ pc = "exit" /\ ending = "normal"
    /\ Len(outcomes) >= 2
    /\ outcomes[1].nav = "TimeoutException"
    /\ outcomes[2].nav = "ok"

\* The records among the first k processed whose status is s, in input order.
RECURSIVE ExpectedPartition(_, _)
ExpectedPartition(s, k) ==
    IF k = 0 THEN <<>>
    ELSE IF outcomes[k].status = s
    THEN Append(ExpectedPartition(s, k - 1), OutcomeOf(k))
    ELSE ExpectedPartition(s, k - 1)

PartitionSizes ==
    Len(results.valid) + Len(results.invalid) + Len(results.error)
        + Len(results.unknown)

\* C5: after k records the four partitions hold exactly the first k loaded
\* records, each once, each under its own status and in input order; every
\* status is one of the four values; the total that is printed and saved is the
\* sum of the four partition sizes.
C5_PartitionsAreTheProcessedRecords ==
    /\ \A k \in 1..Len(outcomes) : outcomes[k].status \in Statuses
    /\ \A s \in Statuses : results[s] = ExpectedPartition(s, Len(outcomes))
    /\ PartitionSizes = Len(outcomes)
    /\ pc = "check" => Len(outcomes) = idx - 1
    /\ summary.printed =>
        /\ summary.total = PartitionSizes
        /\ summary.total = summary.valid + summary.invalid + summary.errors
                            + summary.unknown
    /\ output_file.written => output_file.total = PartitionSizes

C5_Witness ==
    /\ output_file.written
    /\ Len(results.valid) = 1 /\ Len(results.error) = 2
    /\ outcomes[1].status = "error" /\ outcomes[2].status = "valid"

\* C6: when the browser cannot be launched or the input file cannot be opened
\* or parsed, a message is printed and the run goes to its end with no
\* navigation, no classification and no write to the output file.
C6_FatalBeforeAnyWork ==
    (ending = "no_driver" \/ referral_data.failed) =>
        /\ pc \in {"finally", "exit"}
        /\ outcomes = <<>>
        /\ results = EmptyResults
        /\ output_file = StaleReport
        /\ Has(console, IF ending = "no_driver" THEN "Error setting up WebDriver"
                        ELSE "Error reading CSV file")

C6_Witness ==
    pc = "exit" /\ csv_file = GarbledFile /\ referral_data.failed /\ quits = 1

\* C9: a run with a launched browser and a readable file that finishes without
\* interruption with no valid record (the loader emitting no record included)
\* has overwritten the output file with the banner and the total alone.
C9_ReportWrittenWithoutValidCodes ==
    ( /\ pc = "exit"
      /\ ending \in {"normal", "no_records"}
      /\ results.valid = <<>> ) =>
        /\ output_file.written
        /\ ~output_file.section
        /\ output_file.listing = <<>>
        /\ output_file.total = Len(referral_data.data)

(***************************************************************************)
(* Properties of the classifier.                                           *)
(***************************************************************************)
\* The rendered text of a page whose text could be read.
RenderedText(p) == Lower(IF p.bodyRaises THEN p.source ELSE p.body)

TextRead(p) == p.nav = "ok" /\ ~(p.bodyRaises /\ p.sourceRaises)

AllRead(p) ==
    /\ TextRead(p) /\ ~p.titleRaises /\ ~p.elemsRaise
    /\ \A k \in 1..Len(p.elems) : ~p.elems[k].raises

Step1(text) == In(<<"credit">>, text) /\ In(<<"$50">>, text)
Step2(text) ==
    \/ In(<<"invalid", "referral", "code">>, text)
    \/ In(<<"this", "referral", "code", "is", "invalid">>, text)
    \/ (In(<<"invalid">>, text) /\ In(<<"referral">>, text) /\ In(<<"code">>, text))
Step3(title) == In(<<"invalid">>, title) /\ In(<<"referral">>, title)
ElemSaysInvalid(e) == In(<<"invalid", "referral", "code">>, Lower(e.text))
ElemSaysValid(e) ==
    In(<<"credit">>, Lower(e.text))
        /\ (In(<<"$50">>, Lower(e.text)) \/ In(<<"$20">>, Lower(e.text)))
MatchingElems(p) ==
    {k \in 1..Len(p.elems) : ElemSaysInvalid(p.elems[k]) \/ ElemSaysValid(p.elems[k])}

\* The verdict of the first matching step.
Verdict(p) ==
    IF Step1(RenderedText(p)) THEN "valid"
    ELSE IF Step2(RenderedText(p)) THEN "invalid"
    ELSE IF Step3(Lower(p.title)) THEN "invalid"
    ELSE IF MatchingElems(p) = {} THEN "unknown"
    ELSE LET first == CHOOSE k \in MatchingElems(p) :
                        \A j \in MatchingElems(p) : k <= j
         IN  IF ElemSaysInvalid(p.elems[first]) THEN "invalid" ELSE "valid"

\* C3: for a loaded page whose text, title and elements are read, the status is
\* the verdict of the first matching step of the fixed order (text valid, text
\* invalid, title invalid, first matching element, unknown); a valid verdict
\* without "credit" and "$50" in the text comes from an element.
C3_FirstMatchingStep ==
    (cDone /\ AllRead(cPage)) =>
        /\ cResult.status = Verdict(cPage)
        /\ (cResult.status = "valid" /\ ~Step1(RenderedText(cPage))) =>
                \E k \in 1..Len(cPage.elems) : ElemSaysValid(cPage.elems[k])

C3_Witness ==
    /\ cDone /\ AllRead(cPage)
    /\ cPage.body = <<"credit", "$20">>
    /\ Len(cPage.elems) = 2
    /\ ~ElemSaysValid(cPage.elems[1]) /\ ElemSaysValid(cPage.elems[2])
    /\ cResult.status = "valid"

HasInvalidPhrase(text) ==
    \/ In(<<"invalid", "referral", "code">>, text)
    \/ In(<<"this", "referral", "code", "is", "invalid">>, text)

\* C4 as claimed: a loaded page whose rendered text has one of the two invalid
\* phrases is invalid whatever else the text holds.
C4_PhraseAlwaysInvalid ==
    (cDone /\ TextRead(cPage) /\ HasInvalidPhrase(RenderedText(cPage))) =>
        cResult.status = "invalid"

\* C4: a loaded page whose rendered text has one of the two invalid phrases
\* (in any letter case) is invalid whatever the title and the elements are,
\* unless the text also has "credit" and "$50": then it is valid.
C4_PhraseInvalidUnlessCredit ==
    (cDone /\ TextRead(cPage) /\ HasInvalidPhrase(RenderedText(cPage))) =>
        cResult.status = (IF Step1(RenderedText(cPage)) THEN "valid" ELSE "invalid")

C4_Witness ==
    /\ cDone
    /\ cPage.body = <<"Invalid", "Referral", "Code">>
    /\ \E k \in 1..Len(cPage.elems) : ElemSaysValid(cPage.elems[k])
    /\ cResult.status = "invalid"

\* C10 as claimed: status error only when navigation failed.
C10_ErrorOnlyFromNavigation ==
    (cDone /\ cResult.status = "error") => cPage.nav # "ok"

\* C10: status error exactly when navigation failed or, after a successful
\* navigation, both the body lookup and the page_source fallback raised; a
\* failure reading the body alone, the title or the elements never gives
\* error: the verdict is then valid, invalid or unknown.
C10_ErrorFromNavigationOrTextRead ==
    cDone =>
        /\ cResult.status \in Statuses
        /\ cResult.status = "error" <=>
                (cPage.nav # "ok" \/ (cPage.bodyRaises /\ cPage.sourceRaises))

C10_Witness ==
    /\ cDone /\ cPage.nav = "ok"
    /\ cPage.bodyRaises /\ ~cPage.sourceRaises
    /\ cPage.titleRaises /\ cPage.elemsRaise
    /\ cResult.status = "unknown"

(***************************************************************************)
(* Properties of the loader.                                               *)
(***************************************************************************)
HttpScheme(url) == url.scheme \in {Http, Https}
CarriesCode(url) ==
    \E k \in 1..Len(url.query) : url.query[k].key = "code" /\ url.query[k].value # ""

\* The row's trimmed link is non-empty, http(s) and carries a code.
Emittable(row) ==
    /\ ~row.link.none
    /\ Strip(row.link) # EmptyUrl
    /\ HttpScheme(Strip(row.link))
    /\ CarriesCode(Strip(row.link))

RECURSIVE EmittableUrls(_, _)
EmittableUrls(rows, k) ==
    IF k = 0 THEN <<>>
    ELSE IF Emittable(rows[k])
    THEN Append(EmittableUrls(rows, k - 1), Strip(rows[k].link))
    ELSE EmittableUrls(rows, k - 1)

MissingOrNonHttp(row) ==
    row.link.none \/ Strip(row.link) = EmptyUrl \/ ~HttpScheme(Strip(row.link))

\* C7: for a file that opens and parses, the loader never fails; it emits, in
\* row order, exactly the rows whose trimmed link is non-empty, http(s) and
\* carries a non-empty code; every record has a non-empty code; and a row with a
\* missing or non-http link makes the output shorter than the input.
C7_EmitsExactlyTheGoodRows ==
    (lDone /\ lFile.openable /\ lFile.parsable) =>
        /\ ~lResult.failed
        /\ [k \in 1..Len(lResult.data) |-> lResult.data[k].url]
                = EmittableUrls(lFile.rows, Len(lFile.rows))
        /\ \A k \in 1..Len(lResult.data) : lResult.data[k].code # ""
        /\ (\E k \in 1..Len(lFile.rows) : MissingOrNonHttp(lFile.rows[k])) =>
                Len(lResult.data) < Len(lFile.rows)

\* The rows dropped for a link that does not start with "http" or for a URL
\* without a code, in row order.
RECURSIVE DroppedWithReason(_, _)
DroppedWithReason(rows, k) ==
    IF k = 0 THEN <<>>
    ELSE LET url == Strip(rows[k].link)
             nonHttp == Truthy(rows[k].link) /\ url # EmptyUrl
                            /\ ~StartsWith(UrlHead(url), Http)
             noCode == Truthy(rows[k].link) /\ url # EmptyUrl
                            /\ StartsWith(UrlHead(url), Http) /\ ~CarriesCode(url)
         IN  IF nonHttp \/ noCode
             THEN Append(DroppedWithReason(rows, k - 1), url)
             ELSE DroppedWithReason(rows, k - 1)

\* C8: every row dropped for a non-http link or for a missing code gets a
\* console warning.
C8_EveryDropIsWarned ==
    (lDone /\ ~lResult.failed) =>
        lResult.warnings = DroppedWithReason(lFile.rows, Len(lFile.rows))

====
